---------------------------- MODULE Spec2Model ----------------------------
(***************************************************************************)
(* Finite-field elliptic-curve engine of ECC-demo (src/utils/ecc.ts) and   *)
(* the ElGamal workflow of src/components/EncryptionDemo.tsx.              *)
(*                                                                         *)
(* bigint values are TLA+ integers; `/` and `%` on bigint truncate toward  *)
(* zero and are modelled by TruncDiv and Rem.  A value of type             *)
(* `T | null` is a sequence of length at most one: <<>> is null and <<v>>  *)
(* is the value v.  A string is the sequence of its characters.  A call    *)
(* that throws yields [error |-> message].                                 *)
(* The trace lines (log callbacks, *Logs state) are display-only and are   *)
(* not modelled.                                                           *)
(***************************************************************************)
EXTENDS Integers, Sequences, FiniteSets, TLC

VARIABLES
    curve,            \* CurveParams handed to every call (App: useToyCurve)
    fn,               \* name of the operation applied last, "none" at first
    inp,              \* arguments of the pure function under examination;
                      \* in the workflow, those of the embedding call that
                      \* produced embeddedPoint
    out,              \* what that function returned or threw
    privKey,          \* EncryptionDemo state, in declaration order
    pubKey,
    msgInput,
    embeddingMethod,
    embeddedPoint,
    randomK,
    cipherC1,
    cipherC2,
    decryptedPoint,
    decryptedMsg,
    uncaught          \* TRUE when the last handler ended in an exception

vars == <<curve, fn, inp, out, privKey, pubKey, msgInput, embeddingMethod,
          embeddedPoint, randomK, cipherC1, cipherC2, decryptedPoint,
          decryptedMsg, uncaught>>

demoVars == <<privKey, pubKey, msgInput, embeddingMethod, embeddedPoint,
              randomK, cipherC1, cipherC2, decryptedPoint, decryptedMsg,
              uncaught>>

-----------------------------------------------------------------------------
(* Values *)

Null == <<>>

Some(v) == <<v>>

Return(v) == [value |-> v]

Throw(msg) == [error |-> msg]

Threw(r) == "error" \in DOMAIN r

Affine(x, y) == [x |-> Some(x), y |-> Some(y), isInfinity |-> FALSE]

Infinity == [x |-> Null, y |-> Null, isInfinity |-> TRUE]

TOY_CURVE == [a |-> 1, b |-> 6, p |-> 11, G |-> Affine(2, 4), n |-> 13]

DEMO_CURVE == [a |-> 2, b |-> 2, p |-> 1021, G |-> Affine(5, 195), n |-> 1039]

-----------------------------------------------------------------------------
(* Modular arithmetic *)

Abs(i) == IF i < 0 THEN -i ELSE i

\* bigint division: the quotient is truncated toward zero
TruncDiv(n, d) ==
    IF (n < 0) = (d < 0) THEN Abs(n) \div Abs(d) ELSE -(Abs(n) \div Abs(d))

\* bigint remainder: takes the sign of the dividend
Rem(n, d) == n - d * TruncDiv(n, d)

mod(n, p) == Rem(Rem(n, p) + p, p)

RECURSIVE modInverseLoop(_, _, _, _, _, _, _)
modInverseLoop(old_r, r, old_s, s, old_t, t, m) ==
    IF r # 0
    THEN LET quotient == TruncDiv(old_r, r)
         IN  modInverseLoop(r, old_r - quotient * r,
                            s, old_s - quotient * s,
                            t, old_t - quotient * t, m)
    ELSE IF old_r # 1
         THEN Throw("no modular inverse")
         ELSE Return(mod(old_s, m))

modInverse(a, m) == modInverseLoop(a, m, 1, 0, 0, 1, m)

RECURSIVE modPowLoop(_, _, _, _)
modPowLoop(res, base, e, m) ==
    IF e > 0
    THEN modPowLoop(IF Rem(e, 2) = 1 THEN mod(res * base, m) ELSE res,
                    mod(base * base, m), TruncDiv(e, 2), m)
    ELSE res

modPow(base, exp, m) == modPowLoop(1, mod(base, m), exp, m)

\* the brute-force loop: i runs upward from 1 and the first i below p with
\* i*i = a (mod p) is returned, null when the loop runs out
modSqrtSearch(a, p) ==
    LET hits == {i \in 1 .. (p - 1) : mod(i * i, p) = a}
    IN  IF hits = {} THEN Null
        ELSE Some(CHOOSE i \in hits : \A h \in hits : i <= h)

modSqrt(a0, p) ==
    LET a == mod(a0, p)
    IN  IF Rem(p, 4) = 3
        THEN LET r == modPow(a, TruncDiv(p + 1, 4), p)
             IN  IF mod(r * r, p) = a THEN Some(r) ELSE Null
        ELSE modSqrtSearch(a, p)

-----------------------------------------------------------------------------
(* Point arithmetic *)

\* !c for a coordinate c : bigint | null holds for null and for 0n
Falsy(c) == c = Null \/ c[1] = 0

\* num / den mod p, or the error that the inversion raised
slope(num, den, p) ==
    IF Threw(den) THEN den ELSE Return(mod(num * den.value, p))

\* slope of the tangent at P: (3x^2 + a) / (2y)
doublingSlope(P, crv) ==
    slope(mod(3 * P.x[1] * P.x[1] + crv.a, crv.p),
          modInverse(2 * P.y[1], crv.p), crv.p)

\* slope of the chord through P and Q: (y2 - y1) / (x2 - x1)
additionSlope(P, Q, crv) ==
    slope(mod(Q.y[1] - P.y[1], crv.p),
          modInverse(mod(Q.x[1] - P.x[1], crv.p), crv.p), crv.p)

\* thirdPoint with y3 taken relative to Q.y instead of P.y
thirdPointFromQy(P, Q, lambda, p) ==
    LET x3 == mod(lambda * lambda - P.x[1] - Q.x[1], p)
        y3 == mod(lambda * (P.x[1] - x3) - Q.y[1], p)
    IN  Affine(x3, y3)

thirdPoint(P, Q, lambda, p) ==
    LET x3 == mod(lambda * lambda - P.x[1] - Q.x[1], p)
        y3 == mod(lambda * (P.x[1] - x3) - P.y[1], p)
    IN  Affine(x3, y3)

\* isVerticalLine that fires on equal points instead of opposite ones
isVerticalLineOnEqual(P, Q) == P.x[1] = Q.x[1] /\ P.y[1] = Q.y[1]

\* P = -Q: the line through P and Q is vertical
isVerticalLine(P, Q) == P.x[1] = Q.x[1] /\ P.y[1] # Q.y[1]

\* the sum for the slope lambda, or the error that computing lambda raised
sumWithSlope(P, Q, lambda, p) ==
    IF Threw(lambda) THEN lambda ELSE thirdPoint(P, Q, lambda.value, p)

pointAdd(P, Q, crv) ==
    IF P.isInfinity THEN Q
    ELSE IF Q.isInfinity THEN P
    ELSE IF Falsy(P.x) \/ Falsy(P.y) \/ Falsy(Q.x) \/ Falsy(Q.y) THEN Infinity
    ELSE IF isVerticalLine(P, Q) THEN Infinity
    ELSE IF P.x[1] = Q.x[1] /\ P.y[1] = Q.y[1]
         THEN IF P.y[1] = 0 THEN Infinity
              ELSE sumWithSlope(P, Q, doublingSlope(P, crv), crv.p)
         ELSE sumWithSlope(P, Q, additionSlope(P, Q, crv), crv.p)

DigitChars == <<"0", "1", "2", "3", "4", "5", "6", "7", "8", "9">>

RECURSIVE Digits(_, _)
Digits(n, radix) ==
    IF n < radix THEN <<DigitChars[n + 1]>>
    ELSE Digits(n \div radix, radix) \o <<DigitChars[(n % radix) + 1]>>

\* bigint.toString(radix): the digits, most significant first, after a
\* minus sign when the value is negative
toString(n, radix) ==
    IF n < 0 THEN <<"-">> \o Digits(-n, radix) ELSE Digits(n, radix)

\* the for loop of pointMultiply; i is the 1-based position in bits, and R
\* or N is an error when the pointAdd that assigned it threw
RECURSIVE pointMultiplyLoop(_, _, _, _, _)
pointMultiplyLoop(i, R, N, bits, crv) ==
    IF Threw(R) THEN R
    ELSE IF Threw(N) THEN N
    ELSE IF i >= 1
         THEN pointMultiplyLoop(
                  i - 1,
                  IF bits[i] = "1" THEN pointAdd(R, N, crv) ELSE R,
                  pointAdd(N, N, crv), bits, crv)
         ELSE R

pointMultiply(k, P, crv) ==
    LET bits == toString(k, 2)
    IN  pointMultiplyLoop(Len(bits), Infinity, P, bits, crv)

-----------------------------------------------------------------------------
(* Message embedding *)

\* the record isValidX returns for the square root y (null when none)
validity(y) == [valid |-> y # Null, y |-> y]

isValidX(x, crv) ==
    validity(modSqrt(mod(x * x * x + crv.a * x + crv.b, crv.p), crv.p))

RECURSIVE embedMessageKoblitzLoop(_, _, _, _)

\* the loop body for the candidate x = message * K + j, v = isValidX(x, curve)
embedMessageKoblitzTry(j, message, crv, K, v) ==
    IF v.valid /\ v.y # Null
    THEN Affine(message * K + j, v.y[1])
    ELSE embedMessageKoblitzLoop(j + 1, message, crv, K)

embedMessageKoblitzLoop(j, message, crv, K) ==
    IF j < K
    THEN embedMessageKoblitzTry(j, message, crv, K,
                                isValidX(message * K + j, crv))
    ELSE Throw("cannot embed message (Koblitz)")

embedMessageKoblitz(message, crv, K) ==
    embedMessageKoblitzLoop(0, message, crv, K)

unembedMessageKoblitz(P, K) ==
    IF P.isInfinity \/ P.x = Null
    THEN Throw("invalid point")
    ELSE Return(TruncDiv(P.x[1], K))

MaxTries == 100

RECURSIVE embedMessageDirectLoop(_, _, _)

\* the loop body for the candidate x = message + offset, v = isValidX(x, curve)
embedMessageDirectTry(offset, message, crv, v) ==
    IF v.valid /\ v.y # Null
    THEN [point |-> Affine(message + offset, v.y[1]), offset |-> offset]
    ELSE embedMessageDirectLoop(offset + 1, message, crv)

embedMessageDirectLoop(offset, message, crv) ==
    IF offset < MaxTries
    THEN embedMessageDirectTry(offset, message, crv,
                               isValidX(message + offset, crv))
    ELSE Throw("cannot embed message (direct search)")

embedMessageDirect(message, crv) == embedMessageDirectLoop(0, message, crv)

-----------------------------------------------------------------------------
(* EncryptionDemo: key generation, encryption, decryption *)

KoblitzK == 20

\* setPubKey(pub) unless pointMultiply threw (the catch only logs)
setPubKey(pub) == pubKey' = IF Threw(pub) THEN pubKey ELSE Some(pub)

\* useEffect(generateKeys, [curve, privKey]): the effect runs after the
\* mount, while no public key is set yet
generateKeys ==
    /\ pubKey = Null
    /\ setPubKey(pointMultiply(privKey, curve.G, curve))
    /\ fn' = "generateKeys"
    /\ uncaught' = FALSE
    /\ UNCHANGED <<curve, inp, out, privKey, msgInput, embeddingMethod,
                   embeddedPoint, randomK, cipherC1, cipherC2,
                   decryptedPoint, decryptedMsg>>

\* the pair (c1, c2), or the error that computing c2 raised
cipherPair(c1, c2) == IF Threw(c2) THEN c2 ELSE [c1 |-> c1, c2 |-> c2]

\* C2 = Pm + S for C1 = c1, or the error that computing c1 or S raised
cipherOf(c1, S, Pm, crv) ==
    IF Threw(c1) THEN c1
    ELSE IF Threw(S) THEN S
    ELSE cipherPair(c1, pointAdd(Pm, S, crv))

\* the ciphertext (C1, C2) of Pm under the public key Q with the scalar k
encrypt(Pm, Q, k, crv) ==
    cipherOf(pointMultiply(k, crv.G, crv), pointMultiply(k, Q, crv), Pm, crv)

\* setCipherC1(c1); setCipherC2(c2), reached unless the computation threw
setCipher(c) ==
    /\ uncaught' = Threw(c)
    /\ cipherC1' = IF Threw(c) THEN cipherC1 ELSE Some(c.c1)
    /\ cipherC2' = IF Threw(c) THEN cipherC2 ELSE Some(c.c2)

handleEncrypt ==
    /\ embeddedPoint # Null
    /\ pubKey # Null
    /\ setCipher(encrypt(embeddedPoint[1], pubKey[1], randomK, curve))
    /\ fn' = "handleEncrypt"
    /\ UNCHANGED <<curve, inp, out, privKey, pubKey, msgInput,
                   embeddingMethod, embeddedPoint, randomK, decryptedPoint,
                   decryptedMsg>>

\* -S.y! on a null y is a number, and mod(number, bigint) throws a TypeError
negS(S, crv) ==
    IF S.y = Null
    THEN Throw("TypeError: cannot mix BigInt and other types")
    ELSE [x |-> S.x, y |-> Some(mod(-S.y[1], crv.p)),
          isInfinity |-> S.isInfinity]

\* M = C2 + (-S), or the error that negating S raised
recover(C2, neg, crv) == IF Threw(neg) THEN neg ELSE pointAdd(C2, neg, crv)

\* M for the shared secret S, or the error that computing S raised
recoverWith(C2, S, crv) ==
    IF Threw(S) THEN S ELSE recover(C2, negS(S, crv), crv)

\* the point M recovered from (C1, C2) with the private key d
decrypt(C1, C2, d, crv) == recoverWith(C2, pointMultiply(d, C1, crv), crv)

\* m.toString(), or the error that un-embedding raised
messageText(m) == IF Threw(m) THEN m ELSE Return(toString(m.value, 10))

\* the un-embedding step of handleDecrypt: the text of the recovered message
unembed(M, method) ==
    IF method = "koblitz"
    THEN messageText(unembedMessageKoblitz(M, KoblitzK))
    ELSE Return(IF M.x = Null THEN <<>> ELSE toString(M.x[1], 10))

\* setDecryptedMsg(...), reached unless un-embedding threw
setDecryptedMsg(msg) ==
    /\ uncaught' = Threw(msg)
    /\ decryptedMsg' = IF Threw(msg) THEN decryptedMsg ELSE msg.value

\* setDecryptedPoint(M) and the un-embedding, reached unless decryption threw
setDecrypted(M) ==
    IF Threw(M)
    THEN /\ uncaught' = TRUE
         /\ UNCHANGED <<decryptedPoint, decryptedMsg>>
    ELSE /\ decryptedPoint' = Some(M)
         /\ setDecryptedMsg(unembed(M, embeddingMethod))

handleDecrypt ==
    /\ cipherC1 # Null
    /\ cipherC2 # Null
    /\ setDecrypted(decrypt(cipherC1[1], cipherC2[1], privKey, curve))
    /\ fn' = "handleDecrypt"
    /\ UNCHANGED <<curve, inp, out, privKey, pubKey, msgInput,
                   embeddingMethod, embeddedPoint, randomK, cipherC1,
                   cipherC2>>

-----------------------------------------------------------------------------
(* EncryptionDemo: message embedding and the input fields *)

IsDigit(c) == \E v \in 1 .. 10 : DigitChars[v] = c

DigitValue(c) == (CHOOSE v \in 1 .. 10 : DigitChars[v] = c) - 1

AllDigits(s) == s # <<>> /\ \A i \in 1 .. Len(s) : IsDigit(s[i])

RECURSIVE DecimalValue(_)
DecimalValue(s) ==
    IF s = <<>> THEN 0
    ELSE 10 * DecimalValue(SubSeq(s, 1, Len(s) - 1)) + DigitValue(s[Len(s)])

\* BigInt(string) for decimal texts: the empty string is 0n, an optional
\* sign followed by digits is that integer, anything else is a SyntaxError
BigInt(s) ==
    IF s = <<>> THEN Return(0)
    ELSE IF AllDigits(s) THEN Return(DecimalValue(s))
    ELSE IF s[1] \in {"+", "-"} /\ AllDigits(Tail(s))
         THEN Return(IF s[1] = "-" THEN -DecimalValue(Tail(s))
                     ELSE DecimalValue(Tail(s)))
         ELSE Throw("SyntaxError: cannot convert to a BigInt")

\* BigInt(e.target.value || fallback): an empty field yields the fallback
typedScalar(text, fallback) ==
    IF text = <<>> THEN Return(fallback) ELSE BigInt(text)

\* result.point, or the error that embedMessageDirect raised
pointOf(result) == IF Threw(result) THEN result ELSE result.point

\* the point handleEmbed computes for msgVal under the selected method
embed(msgVal, method, crv) ==
    IF method = "koblitz"
    THEN embedMessageKoblitz(msgVal, crv, KoblitzK)
    ELSE pointOf(embedMessageDirect(msgVal, crv))

\* resets the ciphertext only
resetCiphertextOnly ==
    /\ cipherC1' = Null
    /\ cipherC2' = Null
    /\ UNCHANGED <<decryptedPoint, decryptedMsg>>

\* "Reset subsequent steps"
resetSubsequent ==
    /\ cipherC1' = Null
    /\ cipherC2' = Null
    /\ decryptedPoint' = Null
    /\ decryptedMsg' = <<>>

\* setEmbeddedPoint(point) and the resets, reached unless the embedding
\* threw (the catch only logs); inp keeps the arguments of the embedding
setEmbedded(point, msgVal) ==
    IF Threw(point)
    THEN UNCHANGED <<inp, embeddedPoint, cipherC1, cipherC2, decryptedPoint,
                     decryptedMsg>>
    ELSE /\ embeddedPoint' = Some(point)
         /\ inp' = [message |-> msgVal, method |-> embeddingMethod]
         /\ resetSubsequent

\* the body of handleEmbed after const msgVal = BigInt(msgInput), which is
\* outside the try block
embedParsed(msgVal) ==
    IF Threw(msgVal)
    THEN /\ uncaught' = TRUE
         /\ UNCHANGED <<inp, embeddedPoint, cipherC1, cipherC2,
                        decryptedPoint, decryptedMsg>>
    ELSE /\ uncaught' = FALSE
         /\ setEmbedded(embed(msgVal.value, embeddingMethod, curve),
                        msgVal.value)

handleEmbed ==
    /\ embedParsed(BigInt(msgInput))
    /\ fn' = "handleEmbed"
    /\ UNCHANGED <<curve, out, privKey, pubKey, msgInput, embeddingMethod,
                   randomK>>

\* the effect of useEffect(generateKeys, [curve, privKey]) after the render
\* with the private key d; it runs when the key changed
regenerateKeys(d) ==
    IF d # privKey
    THEN setPubKey(pointMultiply(d, curve.G, curve))
    ELSE UNCHANGED pubKey

\* setPrivKey(d) unless BigInt threw, and the effect that follows
privKeyTyped(d) ==
    IF Threw(d)
    THEN uncaught' = TRUE /\ UNCHANGED <<privKey, pubKey>>
    ELSE /\ uncaught' = FALSE
         /\ privKey' = d.value
         /\ regenerateKeys(d.value)

\* setRandomK(k) unless BigInt threw
randomKTyped(k) ==
    IF Threw(k)
    THEN uncaught' = TRUE /\ UNCHANGED randomK
    ELSE uncaught' = FALSE /\ randomK' = k.value

-----------------------------------------------------------------------------
(* Bounds of the examined inputs *)

MaxA == 14

MaxM == 13

MaxY == 10          \* on-curve points are taken with y within MaxY of 0 mod p

MaxCoord == 3       \* arbitrary coordinate pairs are taken from 0 .. MaxCoord

MaxK == 12          \* scalars of pointMultiply

MaxJ == 263         \* first summand of a scalar sum

MaxSummand == 2     \* second summand of a scalar sum

MaxMultiple == 3    \* multiples of the generator taken as base points

MaxMessage == 12    \* messages are taken from -MaxMessage .. MaxMessage

MaxPad == 20        \* padding factors K are taken from 1 .. MaxPad

MaxScalar == 12     \* private keys and ephemeral scalars: 1 .. MaxScalar

MaxOrder == 1039    \* scalars applied to the generator: 0 .. MaxOrder

MaxTyped == 0       \* scalars typed into the key fields: 0 .. MaxTyped

MaxLen == 2         \* length of the texts typed into the message field

-----------------------------------------------------------------------------
(* The EncryptionDemo state right after construction (useState defaults) *)

DemoMounted ==
    /\ privKey = 15
    /\ pubKey = Null
    /\ msgInput = <<"1", "2">>
    /\ embeddingMethod = "koblitz"
    /\ embeddedPoint = Null
    /\ randomK = 7
    /\ cipherC1 = Null
    /\ cipherC2 = Null
    /\ decryptedPoint = Null
    /\ decryptedMsg = <<>>
    /\ uncaught = FALSE

-----------------------------------------------------------------------------
(* Modular arithmetic applied to arguments drawn from bounded sets *)

InitArith ==
    /\ curve = DEMO_CURVE
    /\ fn = "none"
    /\ inp \in [a : -MaxA .. MaxA, m : 2 .. MaxM]
    /\ out = Null
    /\ DemoMounted

CallModInverse ==
    /\ fn = "none"
    /\ fn' = "modInverse"
    /\ out' = modInverse(inp.a, inp.m)
    /\ UNCHANGED <<curve, inp, demoVars>>

CallModSqrt ==
    /\ fn = "none"
    /\ fn' = "modSqrt"
    /\ out' = modSqrt(inp.a, inp.m)
    /\ UNCHANGED <<curve, inp, demoVars>>

NextArith == CallModInverse \/ CallModSqrt

SpecArith == InitArith /\ [][NextArith]_vars

-----------------------------------------------------------------------------
(* What modInverse and modSqrt are to return *)

Divides(d, i) == i % d = 0

GCD(i, j) ==
    CHOOSE d \in 1 .. (Abs(i) + Abs(j)) :
        /\ Divides(d, Abs(i)) /\ Divides(d, Abs(j))
        /\ \A e \in 1 .. (Abs(i) + Abs(j)) :
              Divides(e, Abs(i)) /\ Divides(e, Abs(j)) => e <= d

IsPrime(q) == q > 1 /\ \A e \in 2 .. (q - 1) : ~Divides(e, q)

\* C9: modInverse(a, m) returns the unique x in [0, m) with a*x = 1 (mod m)
\* when gcd(a, m) = 1, for negative a and a >= m too, and throws otherwise.
C9_ModInverseContract ==
    fn = "modInverse" =>
        IF GCD(inp.a, inp.m) = 1
        THEN /\ ~Threw(out)
             /\ out.value \in 0 .. (inp.m - 1)
             /\ (inp.a * out.value) % inp.m = 1
        ELSE Threw(out)

\* C10: for a prime p, modSqrt(a, p) returns some r in [0, p) with
\* r*r = a (mod p) whenever one exists (a = 0 mod p included) and null
\* exactly when none exists.
C10_ModSqrtContract ==
    (fn = "modSqrt" /\ IsPrime(inp.m) /\ inp.m % 4 \in {1, 3}) =>
        LET roots == {r \in 0 .. (inp.m - 1) : (r * r - inp.a) % inp.m = 0}
        IN  IF roots # {} THEN out # Null /\ out[1] \in roots
                          ELSE out = Null

-----------------------------------------------------------------------------
(* Sets of points the point operations are applied to *)

ShippedCurves == {TOY_CURVE, DEMO_CURVE}

Min(i, j) == IF i < j THEN i ELSE j

OnCurve(P, crv) ==
    (P.y[1] * P.y[1]
       - (P.x[1] * P.x[1] * P.x[1] + crv.a * P.x[1] + crv.b)) % crv.p = 0

InField(P, crv) == P.x[1] \in 0 .. (crv.p - 1) /\ P.y[1] \in 0 .. (crv.p - 1)

\* a point in the sense of the data model: infinity, or affine, reduced
\* and on the curve
ValidPoint(P, crv) ==
    /\ ~Threw(P)
    /\ \/ P = Infinity
       \/ /\ ~P.isInfinity /\ P.x # Null /\ P.y # Null
          /\ InField(P, crv) /\ OnCurve(P, crv)

\* the affine points on the curve whose y lies within MaxY of 0 modulo p
\* (for p <= 2 * MaxY + 1 these are all of them)
CurvePoints(crv) ==
    {P \in {Affine(x, y) : x \in 0 .. (crv.p - 1),
                           y \in (0 .. Min(MaxY, crv.p - 1))
                                 \cup ((crv.p - MaxY) .. (crv.p - 1))} :
        InField(P, crv) /\ OnCurve(P, crv)}

\* any coordinate pairs, on the curve or not, zero coordinates included
GridPoints(crv) ==
    {Affine(x, y) : x \in 0 .. Min(MaxCoord, crv.p - 1),
                    y \in 0 .. Min(MaxCoord, crv.p - 1)}

negate(P, crv) == Affine(P.x[1], mod(-P.y[1], crv.p))

-----------------------------------------------------------------------------
(* pointAdd applied to pairs of points *)

InitAdd ==
    /\ curve \in ShippedCurves
    /\ fn = "none"
    /\ inp \in [P : CurvePoints(curve) \cup GridPoints(curve) \cup {Infinity},
                Q : CurvePoints(curve) \cup GridPoints(curve) \cup {Infinity}]
    /\ out = Null
    /\ DemoMounted

CallPointAdd ==
    /\ fn = "none"
    /\ fn' = "pointAdd"
    /\ out' = pointAdd(inp.P, inp.Q, curve)
    /\ UNCHANGED <<curve, inp, demoVars>>

NextAdd == CallPointAdd

SpecAdd == InitAdd /\ [][NextAdd]_vars

\* C5: pointAdd is commutative on valid points (infinity included).
C5_PointAddCommutes ==
    (fn = "pointAdd" /\ ValidPoint(inp.P, curve) /\ ValidPoint(inp.Q, curve))
        => out = pointAdd(inp.Q, inp.P, curve)

C5_Witness ==
    /\ fn = "pointAdd"
    /\ ValidPoint(inp.P, curve) /\ ValidPoint(inp.Q, curve)
    /\ ~inp.P.isInfinity /\ ~inp.Q.isInfinity
    /\ inp.P.x # inp.Q.x
    /\ ~Threw(out) /\ ~out.isInfinity

\* C6: an affine on-curve point with y # 0 added to its negation
\* (x, -y mod p) gives the point at infinity.
C6_AddNegationIsInfinity ==
    (/\ fn = "pointAdd"
     /\ ~inp.P.isInfinity /\ ValidPoint(inp.P, curve) /\ inp.P.y[1] # 0
     /\ inp.Q = negate(inp.P, curve))
        => out = Infinity

C6_Witness ==
    /\ fn = "pointAdd"
    /\ ~inp.P.isInfinity /\ ValidPoint(inp.P, curve) /\ inp.P.y[1] # 0
    /\ inp.Q = negate(inp.P, curve)
    /\ out = Infinity

\* the slope the case analysis names, as the field element it denotes
SlopeOf(P, Q, crv) ==
    CHOOSE l \in 0 .. (crv.p - 1) :
        IF P = Q
        THEN (l * 2 * P.y[1] - (3 * P.x[1] * P.x[1] + crv.a)) % crv.p = 0
        ELSE (l * (Q.x[1] - P.x[1]) - (Q.y[1] - P.y[1])) % crv.p = 0

\* C7: for affine P, Q with coordinates in [0, p), zero included, pointAdd
\* returns infinity exactly when P.x = Q.x and (P.y # Q.y or P.y = 0), and
\* otherwise (x3, y3) = (l^2 - x1 - x2, l*(x1 - x3) - y1) mod p for the
\* tangent or chord slope l; on the toy curve G + G = (5, 9).
C7_PointAddCases ==
    (fn = "pointAdd" /\ ~inp.P.isInfinity /\ ~inp.Q.isInfinity) =>
        LET P == inp.P
            Q == inp.Q
            p == curve.p
        IN  /\ IF P.x = Q.x /\ (P.y # Q.y \/ P.y[1] = 0)
               THEN out = Infinity
               ELSE LET l  == SlopeOf(P, Q, curve)
                        x3 == (l * l - P.x[1] - Q.x[1]) % p
                        y3 == (l * (P.x[1] - x3) - P.y[1]) % p
                    IN  out = Affine(x3, y3)
            /\ (curve = TOY_CURVE /\ P = curve.G /\ Q = curve.G)
                   => out = Affine(5, 9)

-----------------------------------------------------------------------------
(* pointMultiply applied to a scalar and an on-curve point *)

InitMul ==
    /\ curve \in ShippedCurves
    /\ fn = "none"
    /\ inp \in [k : 0 .. MaxK, P : CurvePoints(curve) \cup {Infinity}]
    /\ out = Null
    /\ DemoMounted

CallPointMultiply ==
    /\ fn = "none"
    /\ fn' = "pointMultiply"
    /\ out' = pointMultiply(inp.k, inp.P, curve)
    /\ UNCHANGED <<curve, inp, demoVars>>

NextMul == CallPointMultiply

SpecMul == InitMul /\ [][NextMul]_vars

\* k * P as the k-fold repeated pointAdd of P, starting from infinity
RECURSIVE RepeatedAdd(_, _, _)
RepeatedAdd(k, P, crv) ==
    IF k = 0 THEN Infinity
    ELSE LET prev == RepeatedAdd(k - 1, P, crv)
         IN  IF Threw(prev) THEN prev ELSE pointAdd(prev, P, crv)

\* C3: for k >= 0 and an on-curve point P, pointMultiply(k, P) is the k-fold
\* repeated pointAdd of P starting from infinity; so 0 * P is infinity,
\* 1 * P = P and 2 * P = pointAdd(P, P).
C3_PointMultiplyIsRepeatedAdd ==
    (fn = "pointMultiply" /\ ValidPoint(inp.P, curve))
        => /\ out = RepeatedAdd(inp.k, inp.P, curve)
           /\ inp.k = 0 => out = Infinity
           /\ inp.k = 1 => out = inp.P
           /\ inp.k = 2 => out = pointAdd(inp.P, inp.P, curve)

-----------------------------------------------------------------------------
(* pointMultiply applied to a sum of scalars and a multiple of G *)

GeneratorMultiples(crv) ==
    {pointMultiply(i, crv.G, crv) : i \in 1 .. MaxMultiple}

InitMulSum ==
    /\ curve \in ShippedCurves
    /\ fn = "none"
    /\ inp \in [j : 0 .. MaxJ, k : 0 .. MaxSummand,
                P : GeneratorMultiples(curve)]
    /\ out = Null
    /\ DemoMounted

CallPointMultiplySum ==
    /\ fn = "none"
    /\ fn' = "pointMultiply"
    /\ out' = pointMultiply(inp.j + inp.k, inp.P, curve)
    /\ UNCHANGED <<curve, inp, demoVars>>

NextMulSum == CallPointMultiplySum

SpecMulSum == InitMulSum /\ [][NextMulSum]_vars

\* C4: for j, k >= 0 and P a multiple of the generator of a shipped curve,
\* pointMultiply(j + k, P) = pointAdd(pointMultiply(j, P), pointMultiply(k, P)).
C4_PointMultiplyAdditive ==
    fn = "pointMultiply" =>
        out = pointAdd(pointMultiply(inp.j, inp.P, curve),
                       pointMultiply(inp.k, inp.P, curve), curve)

-----------------------------------------------------------------------------
(* The embedding functions applied to a message and a padding factor *)

InitEmbed ==
    /\ curve \in ShippedCurves
    /\ fn = "none"
    /\ inp \in [message : -MaxMessage .. MaxMessage, K : 1 .. MaxPad]
    /\ out = Null
    /\ DemoMounted

CallEmbedMessageKoblitz ==
    /\ fn = "none"
    /\ fn' = "embedMessageKoblitz"
    /\ out' = embedMessageKoblitz(inp.message, curve, inp.K)
    /\ UNCHANGED <<curve, inp, demoVars>>

\* un-embeds the point the Koblitz embedding returned
CallUnembedMessageKoblitz ==
    /\ fn = "embedMessageKoblitz"
    /\ ~Threw(out)
    /\ fn' = "unembedMessageKoblitz"
    /\ out' = unembedMessageKoblitz(out, inp.K)
    /\ UNCHANGED <<curve, inp, demoVars>>

CallEmbedMessageDirect ==
    /\ fn = "none"
    /\ fn' = "embedMessageDirect"
    /\ out' = embedMessageDirect(inp.message, curve)
    /\ UNCHANGED <<curve, inp, demoVars>>

NextEmbed ==
    \/ CallEmbedMessageKoblitz
    \/ CallUnembedMessageKoblitz
    \/ CallEmbedMessageDirect

SpecEmbed == InitEmbed /\ [][NextEmbed]_vars

\* C2: whenever embedMessageKoblitz(m, curve, K) returns a point P, for any
\* integer m and any K >= 1, unembedMessageKoblitz(P, K) = m.
C2_KoblitzRoundTrip ==
    fn = "unembedMessageKoblitz" => out = Return(inp.message)

\* C8: a point returned by pointAdd, pointMultiply, embedMessageKoblitz or
\* embedMessageDirect for valid inputs is the point at infinity or has x and
\* y in [0, p) and satisfies the curve equation.
C8_ReturnedPointsValid ==
    /\ (fn = "embedMessageKoblitz" /\ inp.message >= 0 /\ ~Threw(out))
           => ValidPoint(out, curve)
    /\ (fn = "embedMessageDirect" /\ inp.message >= 0 /\ ~Threw(out))
           => ValidPoint(out.point, curve)
    /\ (fn = "pointAdd" /\ ValidPoint(inp.P, curve) /\ ValidPoint(inp.Q, curve))
           => ValidPoint(out, curve)
    /\ (fn = "pointMultiply" /\ ValidPoint(inp.P, curve))
           => ValidPoint(out, curve)

-----------------------------------------------------------------------------
(* Key generation, encryption and decryption of a message point *)

\* message points: the on-curve points near y = 0 and the points the direct
\* embedding finds for the messages 0 .. MaxMessage, reduced ones only
MessagePoints(crv) ==
    CurvePoints(crv) \cup
    {P \in {embedMessageDirect(m, crv).point : m \in 0 .. MaxMessage} :
        InField(P, crv)}

InitElGamal ==
    /\ curve \in ShippedCurves
    /\ embeddedPoint \in {Some(P) : P \in MessagePoints(curve)}
    /\ privKey \in 1 .. Min(curve.n - 1, MaxScalar)
    /\ randomK \in 1 .. Min(curve.n - 1, MaxScalar)
    /\ fn = "none"
    /\ inp = Null
    /\ out = Null
    /\ pubKey = Null
    /\ msgInput = <<"1", "2">>
    /\ embeddingMethod = "koblitz"
    /\ cipherC1 = Null
    /\ cipherC2 = Null
    /\ decryptedPoint = Null
    /\ decryptedMsg = <<>>
    /\ uncaught = FALSE

NextElGamal == generateKeys \/ handleEncrypt \/ handleDecrypt

SpecElGamal == InitElGamal /\ [][NextElGamal]_vars

\* C1: on a shipped curve, with 0 < d < n, Q = d*G, 0 < k < n and a reduced
\* on-curve message point Pm, encryption followed by decryption completes
\* without raising and recovers M = Pm.
C1_ElGamalRoundTrip ==
    /\ fn = "handleEncrypt" => ~uncaught
    /\ fn = "handleDecrypt" => (~uncaught /\ decryptedPoint = embeddedPoint)

-----------------------------------------------------------------------------
(* The shipped presets: pointMultiply applied to a scalar and the generator *)

InitOrder ==
    /\ curve \in ShippedCurves
    /\ fn = "none"
    /\ inp \in [k : 0 .. Min(curve.n, MaxOrder)]
    /\ out = Null
    /\ DemoMounted

CallPointMultiplyG ==
    /\ fn = "none"
    /\ fn' = "pointMultiply"
    /\ out' = pointMultiply(inp.k, curve.G, curve)
    /\ UNCHANGED <<curve, inp, demoVars>>

NextOrder == CallPointMultiplyG

SpecOrder == InitOrder /\ [][NextOrder]_vars

\* C11: each shipped preset satisfies the CurveParams invariant: p is prime,
\* a and b lie in [0, p), and G.y^2 = G.x^3 + a*G.x + b (mod p).
C11_PresetsValid ==
    /\ IsPrime(curve.p)
    /\ curve.a \in 0 .. (curve.p - 1)
    /\ curve.b \in 0 .. (curve.p - 1)
    /\ OnCurve(curve.G, curve)

\* C15: in each shipped preset n is the order of G: pointMultiply(n, G) is
\* the point at infinity and pointMultiply(k, G) is affine for 0 < k < n.
C15_GeneratorOrder ==
    fn = "pointMultiply" =>
        /\ inp.k = curve.n => out = Infinity
        /\ (0 < inp.k /\ inp.k < curve.n)
               => (~Threw(out) /\ ~out.isInfinity
                   /\ out.x # Null /\ out.y # Null)

-----------------------------------------------------------------------------
(* The EncryptionDemo workflow with its input fields, on the curve it is   *)
(* mounted with                                                           *)

\* texts of the number fields of the private key and the random scalar
TypedScalars == {<<>>} \cup {toString(k, 10) : k \in 0 .. MaxTyped}

\* characters typed into the message field
TypedChars == {"0", "."}

\* an <input type="number"> holds the empty text or a number: digits, or
\* digits after a decimal point
IsNumberText(s) ==
    \/ s = <<>>
    \/ AllDigits(s)
    \/ \E i \in 1 .. Len(s) :
          /\ s[i] = "."
          /\ i > 1 => AllDigits(SubSeq(s, 1, i - 1))
          /\ AllDigits(SubSeq(s, i + 1, Len(s)))

\* texts of the message field
TypedTexts ==
    {s \in UNION {[1 .. l -> TypedChars] : l \in 0 .. MaxLen} :
        IsNumberText(s)}

\* the public key after the effect that follows the mount
keysOf(pub) == IF Threw(pub) THEN Null ELSE Some(pub)

Init ==
    /\ curve \in ShippedCurves
    /\ fn = "none"
    /\ inp = Null
    /\ out = Null
    /\ privKey = 15
    /\ pubKey = keysOf(pointMultiply(privKey, curve.G, curve))
    /\ msgInput = <<"1", "2">>
    /\ embeddingMethod = "koblitz"
    /\ embeddedPoint = Null
    /\ randomK = 7
    /\ cipherC1 = Null
    /\ cipherC2 = Null
    /\ decryptedPoint = Null
    /\ decryptedMsg = <<>>
    /\ uncaught = FALSE

setPrivKey ==
    /\ \E text \in TypedScalars : privKeyTyped(typedScalar(text, 0))
    /\ fn' = "onChange"
    /\ UNCHANGED <<curve, inp, out, msgInput, embeddingMethod, embeddedPoint,
                   randomK, cipherC1, cipherC2, decryptedPoint, decryptedMsg>>

setMsgInput ==
    /\ \E text \in TypedTexts : msgInput' = text
    /\ fn' = "onChange"
    /\ uncaught' = FALSE
    /\ UNCHANGED <<curve, inp, out, privKey, pubKey, embeddingMethod,
                   embeddedPoint, randomK, cipherC1, cipherC2,
                   decryptedPoint, decryptedMsg>>

setEmbeddingMethod ==
    /\ \E method \in {"koblitz", "direct"} : embeddingMethod' = method
    /\ fn' = "onChange"
    /\ uncaught' = FALSE
    /\ UNCHANGED <<curve, inp, out, privKey, pubKey, msgInput,
                   embeddedPoint, randomK, cipherC1, cipherC2,
                   decryptedPoint, decryptedMsg>>

setRandomK ==
    /\ \E text \in TypedScalars : randomKTyped(typedScalar(text, 1))
    /\ fn' = "onChange"
    /\ UNCHANGED <<curve, inp, out, privKey, pubKey, msgInput,
                   embeddingMethod, embeddedPoint, cipherC1, cipherC2,
                   decryptedPoint, decryptedMsg>>

Next ==
    \/ setPrivKey
    \/ setMsgInput
    \/ setEmbeddingMethod
    \/ setRandomK
    \/ handleEmbed
    \/ handleEncrypt
    \/ handleDecrypt

Spec == Init /\ [][Next]_vars

\* C12: decrypting a ciphertext whose C1 or C2 is the point at infinity
\* reports the dedicated invalid-ciphertext error and sets no decrypted
\* point or message; it neither returns a point nor raises another error.
C12_InvalidCiphertextError ==
    [][(handleDecrypt /\ (cipherC1[1].isInfinity \/ cipherC2[1].isInfinity))
          => /\ decrypt(cipherC1[1], cipherC2[1], privKey, curve)
                    = Throw("InvalidCiphertextError")
             /\ uncaught'
             /\ UNCHANGED <<decryptedPoint, decryptedMsg>>]_vars

\* C13: when a decrypt reaches its un-embedding step, the un-embedding it
\* applies is that of the method selected when the embedded point was
\* created, also when the selector changed in between.
C13_UnembedMatchesEmbedding ==
    (/\ fn = "handleDecrypt"
     /\ ~Threw(decrypt(cipherC1[1], cipherC2[1], privKey, curve)))
        => embeddingMethod = inp.method

\* the embedding of the current message text under the current method
\* returns a point
embedSucceeds(msgVal) ==
    ~Threw(msgVal) /\ ~Threw(embed(msgVal.value, embeddingMethod, curve))

\* C16: cipherC1 and cipherC2 are both null or both set; a ciphertext is set
\* only if an embedded point is set; a decrypted point or message is set
\* only if a ciphertext is set; a successful embed leaves the ciphertext,
\* the decrypted point and the decrypted message cleared.
C16_WorkflowInvariant ==
    /\ (cipherC1 = Null) <=> (cipherC2 = Null)
    /\ cipherC1 # Null => embeddedPoint # Null
    /\ (decryptedPoint # Null \/ decryptedMsg # <<>>) => cipherC1 # Null
    /\ (fn = "handleEmbed" /\ embedSucceeds(BigInt(msgInput)))
           => /\ embeddedPoint # Null
              /\ cipherC1 = Null /\ cipherC2 = Null
              /\ decryptedPoint = Null /\ decryptedMsg = <<>>

\* a decrypt has completed on an embedded and encrypted message
C16_Witness ==
    /\ fn = "handleDecrypt"
    /\ embeddedPoint # Null
    /\ cipherC1 # Null /\ cipherC2 # Null
    /\ decryptedPoint # Null /\ decryptedMsg # <<>>

-----------------------------------------------------------------------------
(* Embedding, encryption and decryption of a message with the Koblitz method *)

InitKoblitz ==
    /\ curve \in ShippedCurves
    /\ msgInput \in {toString(m, 10) : m \in 0 .. MaxMessage}
    /\ privKey \in 1 .. Min(curve.n - 1, MaxScalar)
    /\ randomK \in 1 .. Min(curve.n - 1, MaxScalar)
    /\ pubKey = keysOf(pointMultiply(privKey, curve.G, curve))
    /\ fn = "none"
    /\ inp = Null
    /\ out = Null
    /\ embeddingMethod = "koblitz"
    /\ embeddedPoint = Null
    /\ cipherC1 = Null
    /\ cipherC2 = Null
    /\ decryptedPoint = Null
    /\ decryptedMsg = <<>>
    /\ uncaught = FALSE

NextKoblitz == handleEmbed \/ handleEncrypt \/ handleDecrypt

SpecKoblitz == InitKoblitz /\ [][NextKoblitz]_vars

\* C14: with the Koblitz method on a shipped curve, for a message m >= 0
\* whose embedding succeeds, 0 < d < n and 0 < k < n, embedding, encryption,
\* decryption and un-embedding complete without raising and return m.
C14_KoblitzEndToEnd ==
    /\ fn = "handleEncrypt" => ~uncaught
    /\ fn = "handleDecrypt"
           => (~uncaught /\ decryptedMsg = toString(inp.message, 10))

=============================================================================
